---- MODULE Spec2Model ----
(***************************************************************************)
(* A model of src/src/elb_log_files.rs: the ELB access-log line parser     *)
(* (parse_line, parse_property), the directory enumeration (file_list) and *)
(* the driver loop (process_files).                                        *)
(*                                                                         *)
(* A Rust string is modelled as a sequence of one-character strings, so    *)
(* that split, trim_matches and the FromStr parsers are computed on the    *)
(* characters as the code computes them.  Token positions are 0-based as   *)
(* in the source: Tok(v, i) is v[i] of the Rust Vec.                       *)
(***************************************************************************)
EXTENDS Integers, Sequences, FiniteSets, TLC

VARIABLES
    \* ---- parse_line (one call at a time, calls in sequence) ----
    line,           \* the &String argument of the running call
    split_line,     \* Vec<&str> of line 90
    errors,         \* Vec<ParsingError> of line 91 (the property tags)
    vals,           \* the Option<T> results of lines 93-102, in order
    pc,             \* position in parse_line: idle / fields / build / done
    outcome,        \* what the call returned: Ok, Err or a panic
    hist,           \* the (line, outcome) of every finished call
    \* ---- file_list ----
    walk,           \* the items the WalkDir iterator will yield, root first
    wpos,           \* how many of them the iterator has consumed
    filenames,      \* the caller's &mut Vec<DirEntry>
    filenames0,     \* its content when file_list was called
    fl_status,      \* running / returned
    fl_result,      \* the Result<usize, WalkDirError> returned
    \* ---- process_files ----
    entries,        \* the Vec<DirEntry> argument (entry names)
    idx,            \* the loop position of `for filename in filenames`
    record_count,   \* line 43
    stdout,         \* what println! (line 58) has printed
    status,         \* running / returned / panicked
    panic_msg,      \* the panic that unwound process_files, if any
    result,         \* the usize returned (line 63)
    seen            \* per finished iteration: what open and the reads gave

parseVars == <<line, split_line, errors, vals, pc, outcome, hist>>
walkVars  == <<walk, wpos, filenames, filenames0, fl_status, fl_result>>
fileVars  == <<entries, idx, record_count, stdout, status, panic_msg, result, seen>>
vars      == <<parseVars, walkVars, fileVars>>

(***************************************************************************)
(* Bounds of the model.                                                    *)
(***************************************************************************)
MaxCalls  == 2   \* parse_line calls in one run of the parser specification
MaxExtra  == 2   \* tokens after position 13 on an input line
MaxQuotes == 2   \* double quotes put before / after a method or version token
MaxWalk   == 3   \* items the directory walk yields after the root
MaxDepth  == 2   \* depth of the entries of the walk
MaxFiles  == 3   \* entries handed to process_files
MaxLines  == 2   \* line reads of one file

(***************************************************************************)
(* Characters and decimal numbers.                                         *)
(***************************************************************************)
Digits == {"0", "1", "2", "3", "4", "5", "6", "7", "8", "9"}

DigitVal(c) ==
    CASE c = "0" -> 0 [] c = "1" -> 1 [] c = "2" -> 2 [] c = "3" -> 3
      [] c = "4" -> 4 [] c = "5" -> 5 [] c = "6" -> 6 [] c = "7" -> 7
      [] c = "8" -> 8 [] c = "9" -> 9

AllDigits(s) == \A i \in 1..Len(s) : s[i] \in Digits

\* The value of a digit string short enough not to overflow the model's integers.
RECURSIVE ToNat(_)
ToNat(s) ==
    IF s = <<>> THEN 0
    ELSE 10 * ToNat(SubSeq(s, 1, Len(s) - 1)) + DigitVal(s[Len(s)])

\* A digit string without its leading zeros ("007" -> "7", "000" -> "0"): the
\* model's form of an integer too wide for TLC's 32-bit integers.
RECURSIVE Canon(_)
Canon(s) ==
    IF Len(s) > 1 /\ s[1] = "0" THEN Canon(Tail(s)) ELSE s

RECURSIVE LexLeq(_, _)
LexLeq(a, b) ==
    \/ a = <<>>
    \/ /\ a # <<>>
       /\ \/ DigitVal(a[1]) < DigitVal(b[1])
          \/ DigitVal(a[1]) = DigitVal(b[1]) /\ LexLeq(Tail(a), Tail(b))

\* a <= b for canonical digit strings.
DecLeq(a, b) ==
    \/ Len(a) < Len(b)
    \/ Len(a) = Len(b) /\ LexLeq(a, b)

U16_MAX == <<"6", "5", "5", "3", "5">>
U64_MAX == <<"1", "8", "4", "4", "6", "7", "4", "4", "0", "7", "3", "7", "0", "9", "5", "5", "1", "6", "1", "5">>

\* The position of the first c in s, 0 when there is none.
RECURSIVE IndexOf(_, _, _)
IndexOf(s, c, from) ==
    IF from > Len(s) THEN 0
    ELSE IF s[from] = c THEN from
    ELSE IndexOf(s, c, from + 1)

\* str::split(sep) collected: "" gives [""], "a " gives ["a", ""].
RECURSIVE SplitOn(_, _)
SplitOn(s, sep) ==
    LET i == IndexOf(s, sep, 1) IN
    IF i = 0 THEN <<s>>
    ELSE <<SubSeq(s, 1, i - 1)>> \o SplitOn(SubSeq(s, i + 1, Len(s)), sep)

\* The inverse used to build input lines: tokens joined by single spaces.
RECURSIVE Join(_)
Join(toks) ==
    IF toks = <<>> THEN <<>>
    ELSE IF Len(toks) = 1 THEN toks[1]
    ELSE toks[1] \o <<" ">> \o Join(Tail(toks))

None == [some |-> FALSE]
Some(v) == [some |-> TRUE, val |-> v]

(***************************************************************************)
(* raw_prop.parse::<T>() for the five types of lines 93-102.  Each returns *)
(* Some(value) or None; the value is the parsed form, not the text.        *)
(***************************************************************************)

\* u16 / u64 :: from_str: an optional '+', then one or more digits, no other
\* character, and the value within the type's range.
ParseUnsigned(tok, max) ==
    LET body == IF tok # <<>> /\ tok[1] = "+" THEN Tail(tok) ELSE tok IN
    IF body # <<>> /\ AllDigits(body) /\ DecLeq(Canon(body), max)
    THEN Some(Canon(body))
    ELSE None

parse_u16(tok) ==
    LET r == ParseUnsigned(tok, U16_MAX) IN
    IF r.some THEN Some(ToNat(r.val)) ELSE None

parse_u64(tok) == ParseUnsigned(tok, U64_MAX)

\* A digit string without its trailing zeros.
RECURSIVE StripTrailingZeros(_)
StripTrailingZeros(s) ==
    IF s # <<>> /\ s[Len(s)] = "0"
    THEN StripTrailingZeros(SubSeq(s, 1, Len(s) - 1))
    ELSE s

\* f32 :: from_str on plain decimal text: an optional sign, digits with at
\* most one '.', at least one digit in all.  The value is the decimal
\* number (sign, integer part, fraction), so "0" and "0.0" are equal values.
\* Exponents and the inf / NaN spellings are outside the inputs of the model.
parse_f32(tok) ==
    LET signed == tok # <<>> /\ tok[1] \in {"+", "-"}
        body   == IF signed THEN Tail(tok) ELSE tok
        dot    == IndexOf(body, ".", 1)
        ip     == IF dot = 0 THEN body ELSE SubSeq(body, 1, dot - 1)
        fp     == IF dot = 0 THEN <<>> ELSE SubSeq(body, dot + 1, Len(body))
    IN
    IF AllDigits(ip) /\ AllDigits(fp) /\ Len(ip) + Len(fp) >= 1
    THEN Some([neg  |-> signed /\ tok[1] = "-",
               int  |-> IF ip = <<>> THEN <<"0">> ELSE Canon(ip),
               frac |-> StripTrailingZeros(fp)])
    ELSE None

\* One number of an address: 1..maxlen digits with a value of at most max.
NumberIn(s, maxlen, max) ==
    /\ s # <<>>
    /\ Len(s) <= maxlen
    /\ AllDigits(s)
    /\ ToNat(s) <= max

\* SocketAddrV4 :: from_str: a.b.c.d:port, a..d in 0..255, port in 0..65535.
\* (Whether an octet may carry leading zeros differs between versions of the
\* standard library; the inputs of the model carry none.)
parse_socketaddr(tok) ==
    LET hp == SplitOn(tok, ":")
        oc == IF Len(hp) = 2 THEN SplitOn(hp[1], ".") ELSE <<>>
    IN
    IF /\ Len(hp) = 2
       /\ Len(oc) = 4
       /\ \A i \in 1..4 : NumberIn(oc[i], 3, 255)
       /\ NumberIn(hp[2], 5, 65535)
    THEN Some([ip   |-> [i \in 1..4 |-> ToNat(oc[i])],
               port |-> ToNat(hp[2])])
    ELSE None

DaysIn(y, m) ==
    IF m \in {4, 6, 9, 11} THEN 30
    ELSE IF m = 2
         THEN (IF (y % 4 = 0 /\ y % 100 # 0) \/ y % 400 = 0 THEN 29 ELSE 28)
         ELSE 31

\* Up to nine fraction digits as nanoseconds (".30218" = ".302180").
Nanos(fr) ==
    ToNat(fr \o [i \in 1..(9 - Len(fr)) |-> "0"])

\* DateTime<UTC> :: from_str on the log's form YYYY-MM-DDTHH:MM:SS[.f]Z with
\* the fields in their calendar ranges.  The value is the instant (date,
\* time of day, nanoseconds).  Other zone offsets and leap seconds are
\* outside the inputs of the model.
parse_datetime(tok) ==
    LET n    == Len(tok)
        num(a, b) == SubSeq(tok, a, b)
        frac == IF n > 20 THEN SubSeq(tok, 21, n - 1) ELSE <<>>
        shape ==
            /\ n >= 20
            /\ AllDigits(num(1, 4)) /\ tok[5] = "-"
            /\ AllDigits(num(6, 7)) /\ tok[8] = "-"
            /\ AllDigits(num(9, 10)) /\ tok[11] = "T"
            /\ AllDigits(num(12, 13)) /\ tok[14] = ":"
            /\ AllDigits(num(15, 16)) /\ tok[17] = ":"
            /\ AllDigits(num(18, 19))
            /\ tok[n] = "Z"
            /\ (n > 20 => tok[20] = "." /\ frac # <<>> /\ Len(frac) <= 9 /\ AllDigits(frac))
        y  == ToNat(num(1, 4))
        mo == ToNat(num(6, 7))
        d  == ToNat(num(9, 10))
        h  == ToNat(num(12, 13))
        mi == ToNat(num(15, 16))
        s  == ToNat(num(18, 19))
    IN
    IF /\ shape
       /\ mo \in 1..12 /\ d >= 1 /\ d <= DaysIn(y, mo)
       /\ h <= 23 /\ mi <= 59 /\ s <= 59
    THEN Some([date |-> <<y, mo, d>>, time |-> <<h, mi, s>>, nanos |-> Nanos(frac)])
    ELSE None

(***************************************************************************)
(* parse_property and parse_line, lines 78-150.                            *)
(***************************************************************************)
TIMESTAMP == "timestamp"
CLIENT_ADDRESS == "client address"
BACKEND_ADDRESS == "backend address"
REQUEST_PROCESSING_TIME == "request processing time"
BACKEND_PROCESSING_TIME == "backend processing time"
RESPONSE_PROCESSING_TIME == "response processing time"
ELB_STATUS_CODE == "ELB status code"
BE_STATUS_CODE == "backend status code"
RECEIVED_BYTES == "received bytes"
SENT_BYTES == "sent bytes"

\* The ten parse_property calls of lines 93-102 in program order: the token
\* position each reads, the type it parses to and the tag it reports.
TypedFields == <<
    [idx |-> 0,  ty |-> "DateTime",     name |-> TIMESTAMP],
    [idx |-> 2,  ty |-> "SocketAddrV4", name |-> CLIENT_ADDRESS],
    [idx |-> 3,  ty |-> "SocketAddrV4", name |-> BACKEND_ADDRESS],
    [idx |-> 4,  ty |-> "f32",          name |-> REQUEST_PROCESSING_TIME],
    [idx |-> 5,  ty |-> "f32",          name |-> BACKEND_PROCESSING_TIME],
    [idx |-> 6,  ty |-> "f32",          name |-> RESPONSE_PROCESSING_TIME],
    [idx |-> 7,  ty |-> "u16",          name |-> ELB_STATUS_CODE],
    [idx |-> 8,  ty |-> "u16",          name |-> BE_STATUS_CODE],
    [idx |-> 9,  ty |-> "u64",          name |-> RECEIVED_BYTES],
    [idx |-> 10, ty |-> "u64",          name |-> SENT_BYTES] >>

NumTyped == Len(TypedFields)

\* v[i] of a Rust Vec (0-based); the caller checks i < v.len().
Tok(v, i) == v[i + 1]

InBounds(v, i) == i < Len(v)

\* raw_prop.parse::<T>(), line 137.
ParseAs(ty, raw_prop) ==
    CASE ty = "DateTime"     -> parse_datetime(raw_prop)
      [] ty = "SocketAddrV4" -> parse_socketaddr(raw_prop)
      [] ty = "f32"          -> parse_f32(raw_prop)
      [] ty = "u16"          -> parse_u16(raw_prop)
      [] ty = "u64"          -> parse_u64(raw_prop)

\* parse_property: the Option returned and the errors vector afterwards.
parse_property(raw_prop, ty, prop_name, errs) ==
    LET parsed == ParseAs(ty, raw_prop) IN
    IF parsed.some
    THEN [res |-> parsed, errors |-> errs]
    ELSE [res |-> None, errors |-> Append(errs, [property |-> prop_name])]

RECURSIVE TrimStart(_, _)
TrimStart(s, c) ==
    IF s # <<>> /\ s[1] = c THEN TrimStart(Tail(s), c) ELSE s

RECURSIVE TrimEnd(_, _)
TrimEnd(s, c) ==
    IF s # <<>> /\ s[Len(s)] = c THEN TrimEnd(SubSeq(s, 1, Len(s) - 1), c) ELSE s

\* Removing one c at most from each end (a mutation of trim_matches).
TrimOne(s, c) ==
    LET a == IF s # <<>> /\ s[1] = c THEN Tail(s) ELSE s IN
    IF a # <<>> /\ a[Len(a)] = c THEN SubSeq(a, 1, Len(a) - 1) ELSE a

\* str::trim_matches(c): every leading and every trailing c is removed.
trim_matches(s, c) == TrimEnd(TrimStart(s, c), c)

QUOTE == "\""

IndexPanic == [kind |-> "panic", msg |-> "index out of bounds"]

\* The request fields read one token early (a mutation of BuildEntry).
BuildEntryShifted(sl, vs) ==
    [timestamp                |-> vs[1].val,
     elb_name                 |-> Tok(sl, 1),
     client_address           |-> vs[2].val,
     backend_address          |-> vs[3].val,
     request_processing_time  |-> vs[4].val,
     backend_processing_time  |-> vs[5].val,
     response_processing_time |-> vs[6].val,
     elb_status_code          |-> vs[7].val,
     backend_status_code      |-> vs[8].val,
     received_bytes           |-> vs[9].val,
     sent_bytes               |-> vs[10].val,
     request_method           |-> trim_matches(Tok(sl, 10), QUOTE),
     request_url              |-> Tok(sl, 11),
     request_http_version     |-> trim_matches(Tok(sl, 12), QUOTE)]

\* The ELBLogEntry of lines 106-121.
BuildEntry(sl, vs) ==
    [timestamp                |-> vs[1].val,
     elb_name                 |-> Tok(sl, 1),
     client_address           |-> vs[2].val,
     backend_address          |-> vs[3].val,
     request_processing_time  |-> vs[4].val,
     backend_processing_time  |-> vs[5].val,
     response_processing_time |-> vs[6].val,
     elb_status_code          |-> vs[7].val,
     backend_status_code      |-> vs[8].val,
     received_bytes           |-> vs[9].val,
     sent_bytes               |-> vs[10].val,
     request_method           |-> trim_matches(Tok(sl, 11), QUOTE),
     request_url              |-> Tok(sl, 12),
     request_http_version     |-> trim_matches(Tok(sl, 13), QUOTE)]

\* Lines 104-130: the record when no error was collected, else the failure.
\* Building the record indexes split_line[1], [11], [12] and [13].
Conclude(l, sl, errs, vs) ==
    IF errs = <<>>
    THEN IF InBounds(sl, 13)
         THEN [kind |-> "Ok", entry |-> BuildEntry(sl, vs)]
         ELSE IndexPanic
    ELSE [kind |-> "Err", record |-> l, errors |-> errs]

\* Lines 93-102 from the k-th typed field on, then lines 104-130.
RECURSIVE ParseFrom(_, _, _, _, _)
ParseFrom(l, sl, k, errs, vs) ==
    IF k > NumTyped THEN Conclude(l, sl, errs, vs)
    ELSE LET f == TypedFields[k] IN
         IF ~InBounds(sl, f.idx) THEN IndexPanic
         ELSE LET r == parse_property(Tok(sl, f.idx), f.ty, f.name, errs) IN
              ParseFrom(l, sl, k + 1, r.errors, Append(vs, r.res))

\* parse_line as a function of its argument (what process_files calls).
parse_line(l) == ParseFrom(l, SplitOn(l, " "), 1, <<>>, <<>>)

(***************************************************************************)
(* Input lines.  The tokens of TEST_LINE (lines 156-159) and, per field,   *)
(* well-formed and malformed variants.                                     *)
(***************************************************************************)
TS_SAMPLE == <<"2", "0", "1", "5", "-", "0", "8", "-", "1", "5", "T", "2", "3", ":", "4", "3", ":", "0", "5", ".", "3", "0", "2", "1", "8", "0", "Z">>
TS_NO_TIME == <<"2", "0", "1", "5", "-", "0", "8", "-", "1", "5">>
TS_BAD_MONTH == <<"2", "0", "1", "5", "-", "1", "3", "-", "1", "5", "T", "2", "3", ":", "4", "3", ":", "0", "5", ".", "3", "0", "2", "1", "8", "0", "Z">>
TS_LEAP_DAY == <<"2", "0", "1", "6", "-", "0", "2", "-", "2", "9", "T", "0", "0", ":", "0", "0", ":", "0", "0", "Z">>
TS_NO_LEAP_DAY == <<"2", "0", "1", "5", "-", "0", "2", "-", "2", "9", "T", "0", "0", ":", "0", "0", ":", "0", "0", "Z">>
ELB_SAMPLE == <<"e", "l", "b", "-", "n", "a", "m", "e">>
CLIENT_SAMPLE == <<"1", "7", "2", ".", "1", "6", ".", "1", ".", "6", ":", "5", "4", "8", "1", "4">>
BACKEND_SAMPLE == <<"1", "7", "2", ".", "1", "6", ".", "1", ".", "5", ":", "9", "0", "0", "0">>
ADDR_NO_PORT == <<"1", "7", "2", ".", "1", "6", ".", "1", ".", "6">>
ADDR_BAD_OCTET == <<"2", "5", "6", ".", "1", "6", ".", "1", ".", "6", ":", "8", "0">>
ADDR_BAD_PORT == <<"1", "7", "2", ".", "1", "6", ".", "1", ".", "6", ":", "6", "5", "5", "3", "6">>
ADDR_MAX == <<"2", "5", "5", ".", "2", "5", "5", ".", "2", "5", "5", ".", "2", "5", "5", ":", "6", "5", "5", "3", "5">>
REQ_TIME_SAMPLE == <<"0", ".", "0", "0", "0", "0", "3", "9">>
BE_TIME_SAMPLE == <<"0", ".", "1", "4", "5", "5", "0", "7">>
RES_TIME_SAMPLE == <<"0", ".", "0", "0", "0", "0", "3">>
F32_ZERO == <<"0">>
F32_TWO_DOTS == <<"0", ".", "0", ".", "1">>
F32_MINUS == <<"-">>
F32_DOT == <<".">>
F32_NEGATIVE == <<"-", "1", ".", "5">>
STATUS_SAMPLE == <<"2", "0", "0">>
STATUS_999 == <<"9", "9", "9">>
U16_OVER == <<"6", "5", "5", "3", "6">>
NOT_A_NUMBER == <<"t", "w", "o", "-", "h", "u", "n", "d", "r", "e", "d">>
MINUS_ONE == <<"-", "1">>
LEADING_ZEROS == <<"0", "0", "7">>
TRAILING_LETTER == <<"1", "2", "x">>
RECEIVED_SAMPLE == <<"0">>
SENT_SAMPLE == <<"7", "5", "8", "2">>
U64_OVER == <<"1", "8", "4", "4", "6", "7", "4", "4", "0", "7", "3", "7", "0", "9", "5", "5", "1", "6", "1", "6">>
METHOD_BARE == <<"G", "E", "T">>
METHOD_INNER_QUOTE == <<"G", "\"", "E", "T">>
URL_SAMPLE == <<"h", "t", "t", "p", ":", "/", "/", "s", "o", "m", "e", ".", "d", "o", "m", "a", "i", "n", ".", "c", "o", "m", ":", "8", "0", "/", "p", "a", "t", "h", "0", "/", "p", "a", "t", "h", "1", "?", "p", "a", "r", "a", "m", "0", "=", "p", "0", "&", "p", "a", "r", "a", "m", "1", "=", "p", "1">>
URL_QUOTED == <<"\"", "h", "t", "t", "p", ":", "/", "/", "x", "\"">>
VERSION_BARE == <<"H", "T", "T", "P", "/", "1", ".", "1">>
UA_TOKEN == <<"\"", "c", "u", "r", "l", "/", "7", ".", "3", "8", ".", "0", "\"">>

\* The fourteen tokens of TEST_LINE; the line itself ends in a space, which
\* split turns into a fifteenth, empty token.
SampleTokens == <<
    TS_SAMPLE, ELB_SAMPLE, CLIENT_SAMPLE, BACKEND_SAMPLE,
    REQ_TIME_SAMPLE, BE_TIME_SAMPLE, RES_TIME_SAMPLE,
    STATUS_SAMPLE, STATUS_SAMPLE, RECEIVED_SAMPLE, SENT_SAMPLE,
    <<QUOTE>> \o METHOD_BARE, URL_SAMPLE, VERSION_BARE \o <<QUOTE>> >>

TEST_LINE == Join(SampleTokens \o << <<>> >>)

TypedPositions == {TypedFields[k].idx : k \in 1..NumTyped}

\* A malformed token for each typed position.
BadToken(i) ==
    CASE i = 0  -> TS_BAD_MONTH
      [] i = 2  -> ADDR_NO_PORT
      [] i = 3  -> ADDR_BAD_OCTET
      [] i = 4  -> F32_TWO_DOTS
      [] i = 5  -> F32_MINUS
      [] i = 6  -> NOT_A_NUMBER
      [] i = 7  -> NOT_A_NUMBER
      [] i = 8  -> U16_OVER
      [] i = 9  -> MINUS_ONE
      [] i = 10 -> U64_OVER

\* The sample tokens with the typed positions in B made malformed.
TokensWithBad(B) ==
    [i \in 1..14 |-> IF (i - 1) \in B THEN BadToken(i - 1) ELSE SampleTokens[i]]

\* Further tokens per type: boundary values, empty and signed tokens.
Variants(ty) ==
    CASE ty = "DateTime"     -> {TS_NO_TIME, TS_LEAP_DAY, TS_NO_LEAP_DAY, <<>>}
      [] ty = "SocketAddrV4" -> {ADDR_BAD_PORT, ADDR_MAX, ADDR_NO_PORT, <<>>}
      [] ty = "f32"          -> {F32_ZERO, F32_DOT, F32_NEGATIVE, <<"5", ".">>, <<>>}
      [] ty = "u16"          -> {STATUS_999, U16_MAX, U16_OVER, LEADING_ZEROS,
                                 TRAILING_LETTER, <<"+", "5">>, <<>>}
      [] ty = "u64"          -> {U64_MAX, U64_OVER, MINUS_ONE, TRAILING_LETTER, <<>>}

\* Tokens at positions 14 and beyond: a trailing empty token, a User-Agent.
Extras == UNION {[1..k -> {<<>>, UA_TOKEN}] : k \in 0..MaxExtra}

Quotes(n) == [i \in 1..n |-> QUOTE]

\* A text with up to MaxQuotes double quotes before and after it.
Quoted(texts) ==
    {Quotes(a) \o t \o Quotes(b) : a \in 0..MaxQuotes, b \in 0..MaxQuotes, t \in texts}

\* Every combination of malformed typed fields on a line of fourteen tokens.
ErrorLines == {Join(TokensWithBad(B)) : B \in SUBSET TypedPositions}

\* One typed token of the sample replaced by a variant of its type.
VariantLines ==
    UNION {{Join([SampleTokens EXCEPT ![TypedFields[k].idx + 1] = t]) :
                t \in Variants(TypedFields[k].ty)} : k \in 1..NumTyped}

\* Lines cut short after n tokens, n = 0 being the empty line.
ShortLines ==
    {Join(SubSeq(TokensWithBad(B), 1, n)) :
        n \in 0..14, B \in {{}, {7}, {0, 10}, TypedPositions}}

\* Well-formed typed fields around varying text tokens and trailing tokens.
TextLines ==
    {Join([SampleTokens EXCEPT ![12] = m] \o ex) :
        m \in Quoted({METHOD_BARE, METHOD_INNER_QUOTE, <<>>}), ex \in Extras}
    \cup
    {Join([SampleTokens EXCEPT ![2] = e, ![13] = u, ![14] = v]) :
        e \in {ELB_SAMPLE, <<>>}, u \in {URL_SAMPLE, URL_QUOTED},
        v \in Quoted({VERSION_BARE, <<>>})}

Lines == ErrorLines \cup VariantLines \cup ShortLines \cup TextLines

\* The lines a later call of the same run is given.
SessionLines ==
    {TEST_LINE, Join(TokensWithBad({7})), Join(TokensWithBad({0, 10}))}

(***************************************************************************)
(* parse_line, statement by statement.  A run calls it up to MaxCalls      *)
(* times; a panic unwinds the caller and ends the run.                     *)
(***************************************************************************)
NoOutcome == [kind |-> "none"]

ParseInit ==
    /\ line = <<>>
    /\ split_line = <<>>
    /\ errors = <<>>
    /\ vals = <<>>
    /\ pc = "idle"
    /\ outcome = NoOutcome
    /\ hist = <<>>

\* The errors vector kept from the call before (a mutation of StartCall).
StartCallKeepErrors(l) ==
    /\ line' = l
    /\ split_line' = SplitOn(l, " ")
    /\ errors' = errors
    /\ vals' = <<>>
    /\ pc' = "fields"
    /\ outcome' = NoOutcome
    /\ hist' = hist

\* Entry and lines 90-91: the argument is bound, the line is split and a
\* fresh, empty errors vector is created.
StartCall(l) ==
    /\ line' = l
    /\ split_line' = SplitOn(l, " ")
    /\ errors' = <<>>
    /\ vals' = <<>>
    /\ pc' = "fields"
    /\ outcome' = NoOutcome
    /\ hist' = hist

Call ==
    /\ pc \in {"idle", "done"}
    /\ outcome.kind # "panic"
    /\ Len(hist) < MaxCalls
    /\ \E l \in (IF hist = <<>> THEN Lines ELSE SessionLines) : StartCall(l)

\* The call ends with outcome o.
Finish(o) ==
    /\ pc' = "done"
    /\ outcome' = o
    /\ hist' = Append(hist, [line |-> line, outcome |-> o])

\* One of lines 93-102: index the token, parse it, collect the error.
ParseField ==
    /\ pc = "fields"
    /\ LET f == TypedFields[Len(vals) + 1] IN
       IF ~InBounds(split_line, f.idx)
       THEN /\ Finish(IndexPanic)
            /\ UNCHANGED <<line, split_line, errors, vals>>
       ELSE LET r == parse_property(Tok(split_line, f.idx), f.ty, f.name, errors) IN
            /\ errors' = r.errors
            /\ vals' = Append(vals, r.res)
            /\ pc' = IF Len(vals) + 1 = NumTyped THEN "build" ELSE "fields"
            /\ UNCHANGED <<line, split_line, outcome, hist>>

\* Lines 104-130.
Return ==
    /\ pc = "build"
    /\ Finish(Conclude(line, split_line, errors, vals))
    /\ UNCHANGED <<line, split_line, errors, vals>>

(***************************************************************************)
(* file_list, lines 31-39.  The walk is what WalkDir::new(dir) yields in   *)
(* traversal order: the root (depth 0) first, then its descendants; any    *)
(* item may be an error instead of an entry.  A DirEntry is named by its   *)
(* place in the walk.                                                      *)
(***************************************************************************)
MIN_DEPTH == 1

WalkItems == [ok : BOOLEAN, depth : 1..MaxDepth]

\* Pre-order: an item lies at most one level below the item before it.
WellFormedWalk(w) ==
    \A i \in 2..Len(w) : w[i].depth <= w[i - 1].depth + 1

Walks ==
    {<< [ok |-> FALSE, depth |-> 0] >>}
    \cup
    {w \in UNION {{<< [ok |-> TRUE, depth |-> 0] >> \o t : t \in [1..k -> WalkItems]} :
                    k \in 0..MaxWalk} : WellFormedWalk(w)}

Entry(j) == [id |-> j]

\* An entry the caller's vector may already hold.
OldEntry == [id |-> 0]

\* WalkDir's next() with min_depth(MIN_DEPTH): entries above the minimum
\* depth are passed over, errors are always yielded.  The place of the next
\* item yielded after place p, 0 when the walk is exhausted.
RECURSIVE NextYield(_, _)
NextYield(w, p) ==
    IF p >= Len(w) THEN 0
    ELSE IF ~w[p + 1].ok \/ w[p + 1].depth >= MIN_DEPTH THEN p + 1
    ELSE NextYield(w, p + 1)

WalkIdle ==
    /\ walk = <<>>
    /\ wpos = 0
    /\ filenames = <<>>
    /\ filenames0 = <<>>
    /\ fl_status = "idle"
    /\ fl_result = NoOutcome

WalkInit ==
    /\ walk \in Walks
    /\ wpos = 0
    /\ filenames0 \in {<<>>, <<OldEntry>>}
    /\ filenames = filenames0
    /\ fl_status = "running"
    /\ fl_result = NoOutcome

\* Skipping a failed item and going on (a mutation of OnItem).
OnItemSkipError(j) ==
    /\ wpos' = j
    /\ filenames' = IF walk[j].ok THEN Append(filenames, Entry(j)) ELSE filenames
    /\ UNCHANGED <<fl_status, fl_result>>

\* The match of lines 33-36 on the item at place j.
OnItem(j) ==
    /\ wpos' = j
    /\ IF walk[j].ok
       THEN /\ filenames' = Append(filenames, Entry(j))
            /\ UNCHANGED <<fl_status, fl_result>>
       ELSE /\ fl_status' = "returned"
            /\ fl_result' = [kind |-> "Err", err |-> j]
            /\ UNCHANGED filenames

\* One iteration of the for loop of line 32.
FileListIter ==
    /\ fl_status = "running"
    /\ NextYield(walk, wpos) # 0
    /\ OnItem(NextYield(walk, wpos))
    /\ UNCHANGED <<walk, filenames0>>
    /\ UNCHANGED <<parseVars, fileVars>>

\* The iterator is exhausted: line 38.
FileListEnd ==
    /\ fl_status = "running"
    /\ NextYield(walk, wpos) = 0
    /\ wpos' = Len(walk)
    /\ fl_status' = "returned"
    /\ fl_result' = [kind |-> "Ok", val |-> Len(filenames)]
    /\ UNCHANGED <<walk, filenames, filenames0>>
    /\ UNCHANGED <<parseVars, fileVars>>

(***************************************************************************)
(* process_files, lines 41-64.  What File::open and the line reads give is *)
(* the environment's choice when the loop reaches the entry.  The debug!   *)
(* output (a macro of another file) is not part of the model.              *)
(***************************************************************************)
\* The lines files hold: the sample, a line with one malformed field, a
\* line too short to index, the empty line.
DriverLines ==
    {TEST_LINE, Join(TokensWithBad({7})), Join(SubSeq(SampleTokens, 1, 11)), <<>>}

\* One item of BufRead::lines(): Ok(text) or an io::Error.
ReadItems == {[ok |-> TRUE, text |-> l] : l \in DriverLines} \cup {[ok |-> FALSE]}

Reads == UNION {[1..k -> ReadItems] : k \in 0..MaxLines}

\* parse_line on each of these lines.
DriverParses == [l \in DriverLines |-> parse_line(l)]

UnwrapPanic == [kind |-> "panic", msg |-> "called Result::unwrap() on an Err value"]

\* Lines 49-53: each item is unwrapped and parsed, in order, into recs.
RECURSIVE CollectFrom(_, _, _)
CollectFrom(reads, k, recs) ==
    IF k > Len(reads) THEN [kind |-> "collected", recs |-> recs]
    ELSE IF ~reads[k].ok THEN UnwrapPanic
    ELSE LET r == DriverParses[reads[k].text] IN
         IF r.kind = "panic" THEN r
         ELSE CollectFrom(reads, k + 1, Append(recs, r))

Collect(reads) == CollectFrom(reads, 1, <<>>)

NumErr(recs) == Cardinality({k \in 1..Len(recs) : recs[k].kind = "Err"})

FilesIdle ==
    /\ entries = <<>>
    /\ idx = 0
    /\ record_count = 0
    /\ stdout = <<>>
    /\ status = "idle"
    /\ panic_msg = ""
    /\ result = -1
    /\ seen = <<>>

FilesInit ==
    /\ entries \in {[i \in 1..n |-> Entry(i)] : n \in 0..MaxFiles}
    /\ idx = 1
    /\ record_count = 0
    /\ stdout = <<>>
    /\ status = "running"
    /\ panic_msg = ""
    /\ result = -1
    /\ seen = <<>>

\* Counting the records only (a mutation of Counted).
CountedOkOnly(recs) == Len(recs) - NumErr(recs)

\* recs.len(), line 54.
Counted(recs) == Len(recs)

\* Giving up at the first entry that cannot be opened (a mutation of OnOpenError).
OnOpenErrorStop ==
    /\ stdout' = Append(stdout, "ERROR")
    /\ status' = "returned"
    /\ result' = record_count
    /\ UNCHANGED <<entries, idx, record_count, panic_msg>>

\* Lines 57-59: the error is printed; the loop goes on.
OnOpenError ==
    /\ stdout' = Append(stdout, "ERROR")
    /\ idx' = idx + 1
    /\ UNCHANGED <<entries, record_count, status, panic_msg, result>>

\* Lines 47-56 for a file whose line reads give `reads`.
OnOpenOk(reads) ==
    LET c == Collect(reads) IN
    IF c.kind = "panic"
    THEN /\ status' = "panicked"
         /\ panic_msg' = c.msg
         /\ UNCHANGED <<entries, idx, record_count, stdout, result>>
    ELSE /\ record_count' = record_count + Counted(c.recs)
         /\ idx' = idx + 1
         /\ UNCHANGED <<entries, stdout, status, panic_msg, result>>

\* What a finished iteration is remembered by: the entry, whether it opened,
\* the lines read from it, how many of them parse_line failed on, and what
\* the iteration added to record_count.
Observed(opened, reads) ==
    [entry    |-> entries[idx],
     opened   |-> opened,
     reads    |-> Len(reads),
     failures |-> IF opened THEN NumErr(Collect(reads).recs) ELSE 0,
     counted  |-> record_count' - record_count]

\* One iteration of the for loop of line 44, File::open failing.
ProcessUnopenable ==
    /\ status = "running"
    /\ idx <= Len(entries)
    /\ OnOpenError
    /\ seen' = Append(seen, Observed(FALSE, <<>>))
    /\ UNCHANGED <<parseVars, walkVars>>

\* One iteration of the for loop of line 44, File::open succeeding.
ProcessOpened ==
    /\ status = "running"
    /\ idx <= Len(entries)
    /\ \E reads \in Reads :
          /\ OnOpenOk(reads)
          /\ seen' = IF status' = "panicked" THEN seen
                     ELSE Append(seen, Observed(TRUE, reads))
    /\ UNCHANGED <<parseVars, walkVars>>

\* Line 63.
ReturnCount ==
    /\ status = "running"
    /\ idx > Len(entries)
    /\ status' = "returned"
    /\ result' = record_count
    /\ UNCHANGED <<entries, idx, record_count, stdout, panic_msg, seen>>
    /\ UNCHANGED <<parseVars, walkVars>>

(***************************************************************************)
(* The specifications: the parser, the enumeration and the driver, each    *)
(* with the other two at rest.                                             *)
(***************************************************************************)
Init == ParseInit /\ WalkIdle /\ FilesIdle

Next ==
    \/ Call /\ UNCHANGED <<walkVars, fileVars>>
    \/ ParseField /\ UNCHANGED <<walkVars, fileVars>>
    \/ Return /\ UNCHANGED <<walkVars, fileVars>>

Spec == Init /\ [][Next]_vars

InitWalk == ParseInit /\ WalkInit /\ FilesIdle

NextWalk == FileListIter \/ FileListEnd

SpecWalk == InitWalk /\ [][NextWalk]_vars

InitFiles == ParseInit /\ WalkIdle /\ FilesInit

NextFiles == ProcessUnopenable \/ ProcessOpened \/ ReturnCount

SpecFiles == InitFiles /\ [][NextFiles]_vars

(***************************************************************************)
(* Properties of parse_line, stated for Spec.                              *)
(***************************************************************************)
Tags(errs) == [k \in 1..Len(errs) |-> errs[k].property]

\* The tokens of the line of the running or finished call.
Tokens == SplitOn(line, " ")

\* Whether the token at a typed position is there and does not parse.
Malformed(sl, f) == InBounds(sl, f.idx) /\ ~ParseAs(f.ty, Tok(sl, f.idx)).some

\* The tags of the malformed typed fields of a line, in increasing position.
MalformedTags(sl) ==
    LET bad == SelectSeq(TypedFields, LAMBDA f : Malformed(sl, f)) IN
    [k \in 1..Len(bad) |-> bad[k].name]

\* All ten typed tokens are there and parse.
AllWellFormed(sl) ==
    \A k \in 1..NumTyped :
        InBounds(sl, TypedFields[k].idx)
        /\ ParseAs(TypedFields[k].ty, Tok(sl, TypedFields[k].idx)).some

\* C1: every call of parse_line returns a record (Ok) or a failure (Err); it
\* never panics, whatever the line, the empty and the short ones included.
C1_Totality ==
    pc = "done" => outcome.kind \in {"Ok", "Err"}

\* C2: a line with k >= 1 malformed typed fields is answered by a failure
\* whose errors are exactly the k tags of those fields, in increasing token
\* position.
C2_ErrorCompleteness ==
    (pc = "done" /\ MalformedTags(Tokens) # <<>>)
        => /\ outcome.kind = "Err"
           /\ Tags(outcome.errors) = MalformedTags(Tokens)

\* C3: a record is returned if and only if all ten typed parses succeeded
\* (the error list is empty after the last field); a record is never
\* returned when a typed field failed, and a failure never carries an empty
\* error list.
C3_RecordIffNoErrors ==
    pc = "done"
        => /\ outcome.kind = "Ok" <=> (Len(vals) = NumTyped /\ errors = <<>>)
           /\ outcome.kind = "Ok" => \A k \in 1..Len(vals) : vals[k].some
           /\ outcome.kind = "Err" => outcome.errors # <<>>

\* r is tok without the double quotes at its two ends: tok is r between two
\* runs of quotes, and r neither starts nor ends with a quote.
Unquoted(tok, r) ==
    /\ \E a, b \in 0..Len(tok) : tok = Quotes(a) \o r \o Quotes(b)
    /\ r # <<>> => r[1] # QUOTE /\ r[Len(r)] # QUOTE

\* C4: on a line of at least 14 tokens whose ten typed tokens are well
\* formed, the record holds the typed value of token i in field i, token 1
\* and token 12 verbatim, tokens 11 and 13 without their surrounding double
\* quotes; the tokens from position 14 on do not change the result.
C4_FieldMapping ==
    pc = "done" =>
        LET sl == Tokens IN
        (Len(sl) >= 14 /\ AllWellFormed(sl))
            => /\ outcome.kind = "Ok"
               /\ LET e == outcome.entry IN
                  /\ e.timestamp = parse_datetime(Tok(sl, 0)).val
                  /\ e.elb_name = Tok(sl, 1)
                  /\ e.client_address = parse_socketaddr(Tok(sl, 2)).val
                  /\ e.backend_address = parse_socketaddr(Tok(sl, 3)).val
                  /\ e.request_processing_time = parse_f32(Tok(sl, 4)).val
                  /\ e.backend_processing_time = parse_f32(Tok(sl, 5)).val
                  /\ e.response_processing_time = parse_f32(Tok(sl, 6)).val
                  /\ e.elb_status_code = parse_u16(Tok(sl, 7)).val
                  /\ e.backend_status_code = parse_u16(Tok(sl, 8)).val
                  /\ e.received_bytes = parse_u64(Tok(sl, 9)).val
                  /\ e.sent_bytes = parse_u64(Tok(sl, 10)).val
                  /\ Unquoted(Tok(sl, 11), e.request_method)
                  /\ e.request_url = Tok(sl, 12)
                  /\ Unquoted(Tok(sl, 13), e.request_http_version)
               /\ outcome = parse_line(Join(SubSeq(sl, 1, 14)))

\* C4's case: a record from a line that carries a User-Agent token after
\* the quoted request.
C4_Witness ==
    /\ pc = "done"
    /\ outcome.kind = "Ok"
    /\ Len(Tokens) > 14
    /\ Tok(Tokens, 14) = UA_TOKEN
    /\ Tok(Tokens, 11) = <<QUOTE>> \o METHOD_BARE
    /\ outcome.entry.request_method = METHOD_BARE

\* s without one leading and one trailing double quote, when it has them.
StripOne(s) == TrimOne(s, QUOTE)

\* C5 as stated: from the method and the version token at most one leading
\* and at most one trailing double quote are removed, further quotes next
\* to them are kept.
C5_AtMostOneQuote ==
    (pc = "done" /\ outcome.kind = "Ok")
        => LET sl == Tokens IN
           /\ outcome.entry.request_method = StripOne(Tok(sl, 11))
           /\ outcome.entry.request_http_version = StripOne(Tok(sl, 13))

\* C5 as amended: every leading and every trailing double quote of the
\* method and the version token is removed, and what lies between them,
\* inner double quotes included, is kept unaltered.
C5_AllOuterQuotesRemoved ==
    (pc = "done" /\ outcome.kind = "Ok")
        => LET sl == Tokens IN
           /\ Unquoted(Tok(sl, 11), outcome.entry.request_method)
           /\ Unquoted(Tok(sl, 13), outcome.entry.request_http_version)

\* C5's case: a method token with two leading quotes, an inner one and a
\* trailing one.
C5_Witness ==
    /\ pc = "done"
    /\ outcome.kind = "Ok"
    /\ Tok(Tokens, 11) = Quotes(2) \o METHOD_INNER_QUOTE \o Quotes(1)
    /\ outcome.entry.request_method = METHOD_INNER_QUOTE

\* C9: whenever a call has finished, the calls of the run on equal lines
\* have returned equal outcomes whatever was parsed before them, and every
\* failure reports the malformed fields of its own line only and carries
\* that line unchanged.
C9_Stateless ==
    pc = "done" =>
        /\ \A i, j \in 1..Len(hist) :
              hist[i].line = hist[j].line => hist[i].outcome = hist[j].outcome
        /\ \A i \in 1..Len(hist) :
              hist[i].outcome.kind = "Err"
                  => /\ hist[i].outcome.record = hist[i].line
                     /\ Tags(hist[i].outcome.errors)
                            = MalformedTags(SplitOn(hist[i].line, " "))

\* C9's case: the same malformed line parsed twice in one run.
C9_Witness ==
    /\ Len(hist) = 2
    /\ hist[1].outcome.kind = "Err"
    /\ hist[2].line = hist[1].line

(***************************************************************************)
(* Properties of file_list, stated for SpecWalk.                           *)
(***************************************************************************)
\* The entries of depth >= 1 among the first p items of the walk, in order.
RECURSIVE Descendants(_, _)
Descendants(w, p) ==
    IF p = 0 THEN <<>>
    ELSE Descendants(w, p - 1)
         \o (IF w[p].ok /\ w[p].depth >= 1 THEN <<Entry(p)>> ELSE <<>>)

\* The place of the first error of the walk, 0 when it has none.
FirstError(w) ==
    IF \A j \in 1..Len(w) : w[j].ok THEN 0
    ELSE CHOOSE j \in 1..Len(w) : ~w[j].ok /\ \A i \in 1..(j - 1) : w[i].ok

\* C8: the vector always holds what it held at the call followed by the
\* descendants met so far, in traversal order, the root never among them.
\* With a traversal error file_list returns that first error and the vector
\* holds the descendants met before it and none after it; without one it
\* returns Ok and the vector holds every descendant once.
C8_Enumeration ==
    /\ \E p \in 0..Len(walk) : filenames = filenames0 \o Descendants(walk, p)
    /\ fl_status = "returned"
          => IF FirstError(walk) = 0
             THEN /\ fl_result.kind = "Ok"
                  /\ filenames = filenames0 \o Descendants(walk, Len(walk))
             ELSE /\ fl_result = [kind |-> "Err", err |-> FirstError(walk)]
                  /\ filenames = filenames0 \o Descendants(walk, FirstError(walk) - 1)

\* C8's case: an error met after an entry was pushed and before another
\* entry of the walk.
C8_Witness ==
    /\ fl_status = "returned"
    /\ fl_result.kind = "Err"
    /\ Len(filenames) > Len(filenames0)
    /\ \E j \in (FirstError(walk) + 1)..Len(walk) : walk[j].ok

(***************************************************************************)
(* Properties of process_files, stated for SpecFiles.                      *)
(***************************************************************************)
\* The lines read from the opened entries among the first n iterations.
RECURSIVE LinesRead(_, _)
LinesRead(s, n) ==
    IF n = 0 THEN 0
    ELSE LinesRead(s, n - 1) + (IF s[n].opened THEN s[n].reads ELSE 0)

NumUnopened(s) == Cardinality({k \in 1..Len(s) : ~s[k].opened})

\* C6: a failing line read ends that file's lines and the run goes on with
\* the next file; it never aborts process_files.
C6_ReadErrorIsolated ==
    ~(status = "panicked" /\ panic_msg = UnwrapPanic.msg)

\* C7: an entry that cannot be opened is reported and skipped without a
\* change of record_count; the loop goes on with the next entry, the
\* entries are handled in list order, and process_files returns only after
\* the last one.  No panic comes from an entry that could not be opened.
C7_OpenErrorRecovered ==
    /\ \A k \in 1..Len(seen) :
          /\ seen[k].entry = entries[k]
          /\ ~seen[k].opened => seen[k].counted = 0
    /\ Len(stdout) = NumUnopened(seen)
    /\ status = "running" => idx = Len(seen) + 1
    /\ status = "returned" => Len(seen) = Len(entries)
    /\ status = "panicked" => idx = Len(seen) + 1 /\ idx <= Len(entries)

\* C7's case: process_files has returned a count that includes the lines of
\* an entry listed after one that could not be opened.
C7_Witness ==
    /\ status = "returned"
    /\ result > 0
    /\ \E k \in 1..(Len(seen) - 1) :
          ~seen[k].opened /\ seen[k + 1].opened /\ seen[k + 1].reads > 0

\* C10: record_count is the number of lines read from the entries opened so
\* far, each iteration adding its file's line count, failures counted like
\* records; the count never decreases and the value returned is the total.
C10_DriverAccounting ==
    /\ record_count = LinesRead(seen, Len(seen))
    /\ \A k \in 1..Len(seen) :
          /\ seen[k].entry = entries[k]
          /\ seen[k].counted >= 0
          /\ seen[k].opened => seen[k].counted = seen[k].reads
    /\ status = "returned" => result = LinesRead(seen, Len(seen))

\* C10's case: a returned total that counts a file of two lines of which
\* parse_line failed on one.
C10_Witness ==
    /\ status = "returned"
    /\ \E k \in 1..Len(seen) :
          seen[k].opened /\ seen[k].reads = 2 /\ seen[k].failures = 1
    /\ result >= 2

====
